---- MODULE Spec2Model ----
(***************************************************************************)
(* A model of the Geo-Equity Index dashboard                               *)
(* (src/geo_equity_index_dashboard.py): the geocoder with its cache, the   *)
(* distance engine, the hazard-site and census-tract filters, the tract    *)
(* attribution and the update_map callback that composes them.             *)
(*                                                                         *)
(* Conventions of the model                                                *)
(*  - A Python value that may be None, NaN, a number or a string is a      *)
(*    tagged record: None, NaN, Float(v), PyStr(chars).                    *)
(*  - A Python string is a sequence of one-character strings.              *)
(*  - Miles (distances, radii, display diameters) are fixed-point numbers  *)
(*    with three decimals: 6905 is 6.905 miles, Miles(25) is 25 miles.     *)
(*  - Coordinates are indices of a grid of 0.1 degree steps: latitude      *)
(*    index i is 38.8 + 0.1*i degrees, longitude index j is                *)
(*    -77.2 + 0.1*j degrees.                                               *)
(*  - A DataFrame is a record of its column names and the sequence of its  *)
(*    rows; the index label of a row is its position in the sequence.      *)
(***************************************************************************)
EXTENDS Integers, Sequences, FiniteSets, TLC

VARIABLES
    cimc_data,          \* the hazard-site DataFrame, or None
    census_tracts_gdf,  \* the census-tract GeoDataFrame, or None
    top_features_df,    \* the top-features DataFrame, or None
    data_loaded,        \* the result of load_cimc_data() at startup
    hazard_score_min,   \* Hazard_Score range of the hazard dataset
    hazard_score_max,
    gei_min,            \* GEI_overall_score range of the tract dataset
    gei_max,
    geocode_cache,      \* address -> (latitude, longitude, address)
    query,              \* the last update_map call: arguments, geocoder calls, outputs
    call                \* the last direct call of a pure function: arguments and result

vars == <<cimc_data, census_tracts_gdf, top_features_df, data_loaded,
          hazard_score_min, hazard_score_max, gei_min, gei_max,
          geocode_cache, query, call>>

datasets == <<cimc_data, census_tracts_gdf, top_features_df, data_loaded,
              hazard_score_min, hazard_score_max, gei_min, gei_max>>

-----------------------------------------------------------------------------
(* Python values *)

None == [t |-> "none"]

NaN == [t |-> "nan"]

Float(v) == [t |-> "float", v |-> v]

PyStr(chars) == [t |-> "str", s |-> chars]

Miles(n) == n * 1000

\* Body(value), with `value` evaluated once: a local variable of the source
\* that is assigned once and read several times.
Bind(value, Body(_)) == CHOOSE out \in {Body(v) : v \in {value}} : TRUE

\* The grid of coordinates the distance table covers.
GridIndex == 0..4

\* The largest number of rows of a hazard dataset drawn for filter_cimc_within_radius.
MaxSites == 3

-----------------------------------------------------------------------------
(* str.strip and truthiness of a str *)

Whitespace == {" "}

RECURSIVE lstrip(_)
lstrip(chars) ==
    IF chars # <<>> /\ Head(chars) \in Whitespace THEN lstrip(Tail(chars)) ELSE chars

RECURSIVE rstrip(_)
rstrip(chars) ==
    IF chars # <<>> /\ chars[Len(chars)] \in Whitespace
    THEN rstrip(SubSeq(chars, 1, Len(chars) - 1))
    ELSE chars

\* Variant: the string is left as typed.
strip_skipped(s) == s

strip(s) == PyStr(rstrip(lstrip(s.s)))

\* `not address` for an address that is None or a str
falsy_str(s) == s = None \/ s.s = <<>>

-----------------------------------------------------------------------------
(* Distance engine *)

\* haversine_distance tabulated on the grid: HaversineTable[lat1+1][lat2+1][|lon1-lon2|+1]
\* is the value the source's formula (Earth radius 3956 miles) gives for the grid
\* points, rounded to a thousandth of a mile.
HaversineTable ==
    << << <<0, 5381, 10762, 16143, 21524>>,
          <<6905, 8751, 12780, 17547, 22590>>,
          <<13809, 14818, 17498, 21226, 25547>>,
          <<20714, 21398, 23332, 26240, 29839>>,
          <<27618, 28135, 29630, 31967, 34977>> >>,
       << <<6905, 8751, 12780, 17547, 22590>>,
          <<0, 5373, 10747, 16120, 21494>>,
          <<6905, 8747, 12767, 17526, 22561>>,
          <<13809, 14815, 17489, 21209, 25522>>,
          <<20714, 21396, 23325, 26226, 29817>> >>,
       << <<13809, 14818, 17498, 21226, 25547>>,
          <<6905, 8747, 12767, 17526, 22561>>,
          <<0, 5366, 10732, 16097, 21463>>,
          <<6905, 8742, 12755, 17505, 22532>>,
          <<13809, 14812, 17479, 21192, 25496>> >>,
       << <<20714, 21398, 23332, 26240, 29839>>,
          <<13809, 14815, 17489, 21209, 25522>>,
          <<6905, 8742, 12755, 17505, 22532>>,
          <<0, 5358, 10716, 16075, 21433>>,
          <<6905, 8737, 12742, 17484, 22503>> >>,
       << <<27618, 28135, 29630, 31967, 34977>>,
          <<20714, 21396, 23325, 26226, 29817>>,
          <<13809, 14812, 17479, 21192, 25496>>,
          <<6905, 8737, 12742, 17484, 22503>>,
          <<0, 5351, 10701, 16052, 21402>> >> >>

Abs(n) == IF n < 0 THEN -n ELSE n

haversine_distance(lat1, lon1, lat2, lon2) ==
    LET dlon == lon2 - lon1
    IN  HaversineTable[lat1 + 1][lat2 + 1][Abs(dlon) + 1]

-----------------------------------------------------------------------------
(* float() and pd.notna() of a cell of a DataFrame *)

\* The numerals that occur as text in a coordinate column, and the grid index of
\* the number each one denotes.
NumericText == {<< <<"3", "8", ".", "8">>, 0 >>, << <<"3", "8", ".", "9">>, 1 >>}

\* float(x): [exc |-> "none", val |-> the float] or [exc |-> the exception raised]
float(x) ==
    CASE x.t = "float" -> [exc |-> "none", val |-> x]
      [] x.t = "nan"   -> [exc |-> "none", val |-> x]
      [] x.t = "none"  -> [exc |-> "TypeError"]
      [] x.t = "str"   ->
            IF \E p \in NumericText : p[1] = x.s
            THEN [exc |-> "none",
                  val |-> Float((CHOOSE p \in NumericText : p[1] = x.s)[2])]
            ELSE [exc |-> "ValueError"]

pd_notna(x) == x.t \notin {"nan", "none"}

-----------------------------------------------------------------------------
(* DataFrames *)

DataFrame(columns, rows) == [t |-> "df", columns |-> columns, rows |-> rows]

\* pd.DataFrame(): no columns, no rows
EmptyDataFrame == DataFrame({}, <<>>)

CimcColumns == {"LATITUDE", "LONGITUDE", "Hazard_Score"}

SiteRow(lat, lon, score) == [LATITUDE |-> lat, LONGITUDE |-> lon, Hazard_Score |-> score]

\* Series.min() and Series.max() of a column: NaN cells are skipped, and the
\* result is NaN when no cell is left.
ColumnValues(df, col) ==
    {df.rows[i][col].v : i \in {k \in 1..Len(df.rows) : df.rows[k][col].t = "float"}}

column_min(df, col) ==
    LET vs == ColumnValues(df, col)
    IN  IF vs = {} THEN NaN ELSE Float(CHOOSE v \in vs : \A w \in vs : v <= w)

column_max(df, col) ==
    LET vs == ColumnValues(df, col)
    IN  IF vs = {} THEN NaN ELSE Float(CHOOSE v \in vs : \A w \in vs : v >= w)

-----------------------------------------------------------------------------
(* Hazard filter *)

\* sort_values left out: the rows in the order they were found.
sort_values_skipped(rows) == rows

\* DataFrame.sort_values('distance_miles'): ascending, rows of equal distance
\* keep their order.
insert_by_distance(sorted, last) ==
    LET keep == {i \in 1..Len(sorted) : sorted[i].distance_miles <= last.distance_miles}
        k    == Cardinality(keep)
    IN  SubSeq(sorted, 1, k) \o <<last>> \o SubSeq(sorted, k + 1, Len(sorted))

RECURSIVE sort_values(_)
sort_values(rows) ==
    IF rows = <<>> THEN <<>>
    ELSE Bind(sort_values(SubSeq(rows, 1, Len(rows) - 1)),
              LAMBDA sorted : insert_by_distance(sorted, rows[Len(rows)]))

\* cimc_row_match with the boundary excluded: dist < radius_miles.
cimc_row_match_strict(idx, center_lat, center_lon, radius_miles) ==
    LET row == cimc_data.rows[idx]
        lat == float(row.LATITUDE)
        lon == float(row.LONGITUDE)
    IN  IF lat.exc # "none" \/ lon.exc # "none" THEN <<>>
        ELSE IF pd_notna(lat.val) /\ pd_notna(lon.val)
             THEN LET dist == haversine_distance(center_lat, center_lon, lat.val.v, lon.val.v)
                  IN  IF dist < radius_miles
                      THEN <<[idx |-> idx, distance_miles |-> dist]>>
                      ELSE <<>>
             ELSE <<>>

\* cimc_row_match with the comparison turned around: dist >= radius_miles.
cimc_row_match_outside(idx, center_lat, center_lon, radius_miles) ==
    LET row == cimc_data.rows[idx]
        lat == float(row.LATITUDE)
        lon == float(row.LONGITUDE)
    IN  IF lat.exc # "none" \/ lon.exc # "none" THEN <<>>
        ELSE IF pd_notna(lat.val) /\ pd_notna(lon.val)
             THEN LET dist == haversine_distance(center_lat, center_lon, lat.val.v, lon.val.v)
                  IN  IF dist >= radius_miles
                      THEN <<[idx |-> idx, distance_miles |-> dist]>>
                      ELSE <<>>
             ELSE <<>>

\* The body of the loop of filter_cimc_within_radius for the row at index idx:
\* the entry appended to (valid_indices, distances), or nothing.
cimc_row_match(idx, center_lat, center_lon, radius_miles) ==
    LET row == cimc_data.rows[idx]
        lat == float(row.LATITUDE)
        lon == float(row.LONGITUDE)
    IN  IF lat.exc # "none" \/ lon.exc # "none" THEN <<>>
        ELSE IF pd_notna(lat.val) /\ pd_notna(lon.val)
             THEN LET dist == haversine_distance(center_lat, center_lon, lat.val.v, lon.val.v)
                  IN  IF dist <= radius_miles
                      THEN <<[idx |-> idx, distance_miles |-> dist]>>
                      ELSE <<>>
             ELSE <<>>

RECURSIVE cimc_matches(_, _, _, _)
cimc_matches(n, center_lat, center_lon, radius_miles) ==
    IF n = 0 THEN <<>>
    ELSE cimc_matches(n - 1, center_lat, center_lon, radius_miles)
         \o cimc_row_match(n, center_lat, center_lon, radius_miles)

\* The result is the sequence of the rows retained, each as its index label in
\* cimc_data and the distance attached to it; exc names an exception that
\* leaves the function.
filter_cimc_within_radius(center_lat, center_lon, radius_miles) ==
    IF cimc_data = None THEN [exc |-> "none", rows |-> <<>>]
    ELSE IF "LATITUDE" \notin cimc_data.columns \/ "LONGITUDE" \notin cimc_data.columns
    THEN [exc |-> "none", rows |-> <<>>]
    ELSE LET found == cimc_matches(Len(cimc_data.rows), center_lat, center_lon, radius_miles)
         IN  [exc |-> "none", rows |-> sort_values(found)]

-----------------------------------------------------------------------------
(* Zoom level *)

\* Variant: the comparisons are strict.
calculate_zoom_for_radius_strict(radius_miles) ==
    LET display_diameter == radius_miles * 3
    IN  IF display_diameter < Miles(5) THEN 13
        ELSE IF display_diameter < Miles(10) THEN 12
        ELSE IF display_diameter < Miles(20) THEN 11
        ELSE IF display_diameter < Miles(40) THEN 10
        ELSE IF display_diameter < Miles(80) THEN 9
        ELSE IF display_diameter < Miles(150) THEN 8
        ELSE IF display_diameter < Miles(300) THEN 7
        ELSE 6

\* Variant: the zoom levels of two neighbouring steps are exchanged.
calculate_zoom_for_radius_exchanged(radius_miles) ==
    LET display_diameter == radius_miles * 3
    IN  IF display_diameter <= Miles(5) THEN 13
        ELSE IF display_diameter <= Miles(10) THEN 12
        ELSE IF display_diameter <= Miles(20) THEN 10
        ELSE IF display_diameter <= Miles(40) THEN 11
        ELSE IF display_diameter <= Miles(80) THEN 9
        ELSE IF display_diameter <= Miles(150) THEN 8
        ELSE IF display_diameter <= Miles(300) THEN 7
        ELSE 6

calculate_zoom_for_radius(radius_miles) ==
    LET display_diameter == radius_miles * 3
    IN  IF display_diameter <= Miles(5) THEN 13
        ELSE IF display_diameter <= Miles(10) THEN 12
        ELSE IF display_diameter <= Miles(20) THEN 11
        ELSE IF display_diameter <= Miles(40) THEN 10
        ELSE IF display_diameter <= Miles(80) THEN 9
        ELSE IF display_diameter <= Miles(150) THEN 8
        ELSE IF display_diameter <= Miles(300) THEN 7
        ELSE 6

-----------------------------------------------------------------------------
(* Geocoder *)

\* What geolocator.geocode(address) does: it raises, returns None or returns a
\* Location.
Location(latitude, longitude, address) ==
    [kind |-> "location", latitude |-> latitude, longitude |-> longitude,
     address |-> address]

ProviderRaises == [kind |-> "raise"]

ProviderNone == [kind |-> "none"]

\* The value returned when the address is not found
NotFound == <<None, None, None>>

\* get_coordinates(address) where the provider, if it is called, answers
\* `outcome`. cache is geocode_cache after the call; provider is "not_called"
\* or what geolocator.geocode did when it was invoked ("raise", "none" or
\* "location"); exc names an exception that leaves the function (none does:
\* the try block catches Exception).
\* Variant: a failed lookup is stored as the not-found value.
get_coordinates_storing_failure(cache, address, outcome) ==
    IF address \in DOMAIN cache
    THEN [exc |-> "none", ret |-> cache[address], cache |-> cache,
          provider |-> "not_called"]
    ELSE IF outcome.kind = "location"
    THEN LET result == <<Float(outcome.latitude), Float(outcome.longitude), outcome.address>>
         IN  [exc |-> "none", ret |-> result,
              cache |-> [a \in DOMAIN cache \cup {address} |->
                            IF a = address THEN result ELSE cache[a]],
              provider |-> "location"]
    ELSE [exc |-> "none", ret |-> NotFound,
          cache |-> [a \in DOMAIN cache \cup {address} |->
                        IF a = address THEN NotFound ELSE cache[a]],
          provider |-> outcome.kind]

\* Variant: nothing is stored.
get_coordinates_not_storing(cache, address, outcome) ==
    IF address \in DOMAIN cache
    THEN [exc |-> "none", ret |-> cache[address], cache |-> cache,
          provider |-> "not_called"]
    ELSE IF outcome.kind = "location"
    THEN [exc |-> "none",
          ret |-> <<Float(outcome.latitude), Float(outcome.longitude), outcome.address>>,
          cache |-> cache, provider |-> "location"]
    ELSE [exc |-> "none", ret |-> NotFound, cache |-> cache, provider |-> outcome.kind]

\* Variant: the triple stored has the address as typed in place of the
\* provider's.
get_coordinates_storing_typed_address(cache, address, outcome) ==
    IF address \in DOMAIN cache
    THEN [exc |-> "none", ret |-> cache[address], cache |-> cache,
          provider |-> "not_called"]
    ELSE IF outcome.kind = "location"
    THEN LET result == <<Float(outcome.latitude), Float(outcome.longitude), outcome.address>>
         IN  [exc |-> "none", ret |-> result,
              cache |-> [a \in DOMAIN cache \cup {address} |->
                            IF a = address
                            THEN <<result[1], result[2], address>> ELSE cache[a]],
              provider |-> "location"]
    ELSE [exc |-> "none", ret |-> NotFound, cache |-> cache, provider |-> outcome.kind]

\* Variant: the answer is stored under the address the provider gave back.
get_coordinates_keyed_by_answer(cache, address, outcome) ==
    IF address \in DOMAIN cache
    THEN [exc |-> "none", ret |-> cache[address], cache |-> cache,
          provider |-> "not_called"]
    ELSE IF outcome.kind = "location"
    THEN LET result == <<Float(outcome.latitude), Float(outcome.longitude), outcome.address>>
         IN  [exc |-> "none", ret |-> result,
              cache |-> [a \in DOMAIN cache \cup {outcome.address} |->
                            IF a = outcome.address THEN result ELSE cache[a]],
              provider |-> "location"]
    ELSE [exc |-> "none", ret |-> NotFound, cache |-> cache, provider |-> outcome.kind]

\* Variant: the provider is asked on every call and the cache holds only the
\* last answer.
get_coordinates_forgetting(cache, address, outcome) ==
    IF outcome.kind = "location"
    THEN LET result == <<Float(outcome.latitude), Float(outcome.longitude), outcome.address>>
         IN  [exc |-> "none", ret |-> result,
              cache |-> [a \in {address} |-> result],
              provider |-> "location"]
    ELSE [exc |-> "none", ret |-> NotFound, cache |-> cache, provider |-> outcome.kind]

get_coordinates(cache, address, outcome) ==
    IF address \in DOMAIN cache
    THEN [exc |-> "none", ret |-> cache[address], cache |-> cache,
          provider |-> "not_called"]
    ELSE IF outcome.kind = "raise"
    THEN [exc |-> "none", ret |-> NotFound, cache |-> cache, provider |-> "raise"]
    ELSE IF outcome.kind = "location"
    THEN LET result == <<Float(outcome.latitude), Float(outcome.longitude), outcome.address>>
         IN  [exc |-> "none", ret |-> result,
              cache |-> [a \in DOMAIN cache \cup {address} |->
                            IF a = address THEN result ELSE cache[a]],
              provider |-> "location"]
    ELSE [exc |-> "none", ret |-> NotFound, cache |-> cache, provider |-> "none"]

-----------------------------------------------------------------------------
(* Census tracts *)

\* The geometry of a tract is a set of cells <<i, j>>: the squares of 0.2 degree
\* with longitude index in [2i, 2i+2] and latitude index in [2j, 2j+2]; it is
\* the union of its cells.
GeoDataFrame(columns, rows) == [t |-> "gdf", columns |-> columns, rows |-> rows]

\* The score that stands for "not computed" (-999), in hundredths like the scores
MISSING == (-999) * 100

\* Point(x, y)
Point(x, y) == [x |-> x, y |-> y]

\* The cells whose closed square holds the coordinate c along one axis
CellsAt(c) == {i \in {(c - 2) \div 2, c \div 2} : 2 * i <= c /\ c <= 2 * i + 2}

\* Variant: a point on the boundary of the geometry counts as contained.
contains_touching(geometry, point) ==
    \E i \in CellsAt(point.x), j \in CellsAt(point.y) : <<i, j>> \in geometry

\* geometry.contains(point): the point lies in the interior of the geometry,
\* which is when every cell that touches the point belongs to it.
contains(geometry, point) ==
    \A i \in CellsAt(point.x), j \in CellsAt(point.y) : <<i, j>> \in geometry

\* Series.get(key, default) of a row of the GeoDataFrame
tract_get(gdf, tract, key, default) ==
    IF key \in gdf.columns THEN tract[key] ELSE default

NA == PyStr(<<"N", "/", "A">>)

\* The try block of get_census_tract_info: the info of the first tract that
\* contains the point, or None. exc names an exception that leaves the
\* function (none does).
containing_tract_info(lat, lon) ==
    LET point == Point(lon, lat)
        rows == census_tracts_gdf.rows
        containing_tracts == {i \in 1..Len(rows) : contains(rows[i].geometry, point)}
    IN  IF containing_tracts # {}
        THEN LET first == CHOOSE i \in containing_tracts :
                              \A k \in containing_tracts : i <= k
                 tract == rows[first]
             IN  [exc |-> "none",
                  ret |-> [t |-> "dict",
                           geoid |-> tract_get(census_tracts_gdf, tract, "GEOID", NA),
                           name |-> tract_get(census_tracts_gdf, tract, "NAME", NA),
                           state |-> tract_get(census_tracts_gdf, tract, "STUSPS", NA),
                           gei_overall_score |->
                               tract_get(census_tracts_gdf, tract, "GEI_overall_score", NA),
                           gei_health_score |->
                               tract_get(census_tracts_gdf, tract, "GEI_health_score", NA),
                           gei_socio_score |->
                               tract_get(census_tracts_gdf, tract, "GEI_socio_score", NA),
                           gei_env_score |->
                               tract_get(census_tracts_gdf, tract, "GEI_env_score", NA)]]
        ELSE [exc |-> "none", ret |-> None]

\* Variant: a dataset that is not loaded gives an outcome of its own.
get_census_tract_info_unavailable(lat, lon) ==
    IF census_tracts_gdf = None THEN [exc |-> "none", ret |-> [t |-> "unavailable"]]
    ELSE containing_tract_info(lat, lon)

get_census_tract_info(lat, lon) ==
    IF census_tracts_gdf = None THEN [exc |-> "none", ret |-> None]
    ELSE containing_tract_info(lat, lon)

\* census_tracts_gdf.cx[min_lon:max_lon, min_lat:max_lat] for the box of
\* radius_degrees = (radius_miles * 1.2) / 69.0 around the center: the tracts
\* whose geometry intersects the box. The comparisons are those of
\* 2i <= center + radius_degrees and 2i + 2 >= center - radius_degrees in
\* units of 0.1 degree, multiplied by 69000.
\* Variant: the box has no 20% buffer.
cell_intersects_box_unbuffered(cell, center_lat, center_lon, radius_miles) ==
    LET radius_degrees == radius_miles * 10
    IN  /\ 69000 * 2 * cell[1] <= 69000 * center_lon + radius_degrees
        /\ 69000 * (2 * cell[1] + 2) >= 69000 * center_lon - radius_degrees
        /\ 69000 * 2 * cell[2] <= 69000 * center_lat + radius_degrees
        /\ 69000 * (2 * cell[2] + 2) >= 69000 * center_lat - radius_degrees

cell_intersects_box(cell, center_lat, center_lon, radius_miles) ==
    LET radius_degrees == radius_miles * 12
    IN  /\ 69000 * 2 * cell[1] <= 69000 * center_lon + radius_degrees
        /\ 69000 * (2 * cell[1] + 2) >= 69000 * center_lon - radius_degrees
        /\ 69000 * 2 * cell[2] <= 69000 * center_lat + radius_degrees
        /\ 69000 * (2 * cell[2] + 2) >= 69000 * center_lat - radius_degrees

\* The result is None or the sequence of the index labels of the tracts kept.
filter_census_tracts_within_radius(center_lat, center_lon, radius_miles) ==
    IF census_tracts_gdf = None THEN [exc |-> "none", ret |-> None]
    ELSE LET rows == census_tracts_gdf.rows
             hit(i) == \E cell \in rows[i].geometry :
                          cell_intersects_box(cell, center_lat, center_lon, radius_miles)
         IN  [exc |-> "none",
              ret |-> [t |-> "gdf", index |-> SelectSeq([i \in 1..Len(rows) |-> i], hit)]]

-----------------------------------------------------------------------------
(* Loading at startup *)

NoFile == [t |-> "nofile"]

\* load_cimc_data() on the content `file` of data/CIMC_Sites_Hazard_Score.csv
load_cimc_data(file) ==
    IF file = NoFile
    THEN [cimc_data |-> None, hazard_score_min |-> None, hazard_score_max |-> None,
          ret |-> FALSE]
    ELSE IF "Hazard_Score" \in file.columns
    THEN [cimc_data |-> file,
          hazard_score_min |-> column_min(file, "Hazard_Score"),
          hazard_score_max |-> column_max(file, "Hazard_Score"),
          ret |-> TRUE]
    ELSE [cimc_data |-> file, hazard_score_min |-> None, hazard_score_max |-> None,
          ret |-> TRUE]

\* load_census_tracts() on the content `file` of data/census_tracts_with_gei.gpkg
\* Variant: the bounds are taken over every score, the sentinel included.
load_census_tracts_keeping_sentinel(file) ==
    IF file = NoFile
    THEN [census_tracts_gdf |-> None, gei_min |-> None, gei_max |-> None, ret |-> FALSE]
    ELSE IF "GEI_overall_score" \in file.columns
    THEN [census_tracts_gdf |-> file,
          gei_min |-> column_min(file, "GEI_overall_score"),
          gei_max |-> column_max(file, "GEI_overall_score"),
          ret |-> TRUE]
    ELSE [census_tracts_gdf |-> file, gei_min |-> None, gei_max |-> None, ret |-> TRUE]

load_census_tracts(file) ==
    IF file = NoFile
    THEN [census_tracts_gdf |-> None, gei_min |-> None, gei_max |-> None, ret |-> FALSE]
    ELSE IF "GEI_overall_score" \in file.columns
    THEN LET not_missing(row) == row.GEI_overall_score # Float(MISSING)
             valid_gei == GeoDataFrame(file.columns, SelectSeq(file.rows, not_missing))
         IN  [census_tracts_gdf |-> file,
              gei_min |-> column_min(valid_gei, "GEI_overall_score"),
              gei_max |-> column_max(valid_gei, "GEI_overall_score"),
              ret |-> TRUE]
    ELSE [census_tracts_gdf |-> file, gei_min |-> None, gei_max |-> None, ret |-> TRUE]

\* load_top_features() on the content `file` of data/GEI_top10_features_2025-11-11.csv
load_top_features(file) ==
    IF file = NoFile
    THEN [top_features_df |-> None, ret |-> FALSE]
    ELSE [top_features_df |-> file, ret |-> TRUE]

-----------------------------------------------------------------------------
(* The map figure *)

\* go.Figure()
EmptyFigure == [layers |-> <<>>, layout |-> [t |-> "empty"]]

\* create_default_us_map(): one invisible trace, North America centered
create_default_us_map ==
    [layers |-> <<[type |-> "Scattermap", name |-> "", size |-> 1]>>,
     layout |-> [t |-> "default_us_map", style |-> "open-street-map",
                 zoom_hundredths |-> 180]]

\* The figure create_map_figure returns when the address was not found
AddressNotFoundFigure(address) ==
    [layers |-> <<>>,
     layout |-> [t |-> "error", title |-> "Error: Address Not Found",
                 annotation |-> [text |-> "Could not find coordinates for: ",
                                 address |-> address]]]

\* Layer 1 of create_map_figure: the census tract polygons
tract_layers(nearby_tracts) ==
    IF nearby_tracts # None /\ Len(nearby_tracts.index) > 0
    THEN IF "GEI_overall_score" \in census_tracts_gdf.columns
         THEN LET scored(i) ==
                      census_tracts_gdf.rows[i].GEI_overall_score # Float(MISSING)
                  valid_tracts == SelectSeq(nearby_tracts.index, scored)
              IN  IF Len(valid_tracts) > 0
                  THEN <<[type |-> "Choroplethmap", name |-> "Census Tracts",
                          colorscale |-> "RdYlGn",
                          locations |-> valid_tracts,
                          z |-> [k \in 1..Len(valid_tracts) |->
                                   census_tracts_gdf.rows[valid_tracts[k]].GEI_overall_score],
                          zmin |-> gei_min, zmax |-> gei_max]>>
                  ELSE <<>>
         ELSE <<[type |-> "Choroplethmap", name |-> "Census Tracts",
                 colorscale |-> "lightgray",
                 locations |-> nearby_tracts.index,
                 z |-> [k \in 1..Len(nearby_tracts.index) |-> Float(1)],
                 zmin |-> None, zmax |-> None]>>
    ELSE <<>>

\* The marker of one row of nearby_cimc, or nothing when float() raises on
\* one of its cells (the loop continues with the next row).
cimc_marker(site) ==
    LET point == cimc_data.rows[site.idx]
        point_lat == float(point.LATITUDE)
        point_lon == float(point.LONGITUDE)
        has_score == "Hazard_Score" \in cimc_data.columns /\ pd_notna(point.Hazard_Score)
        hazard_score == float(point.Hazard_Score)
    IN  IF point_lat.exc # "none" \/ point_lon.exc # "none" THEN <<>>
        ELSE IF has_score /\ hazard_score.exc # "none" THEN <<>>
        ELSE <<[idx |-> site.idx, lat |-> point_lat.val, lon |-> point_lon.val,
                distance_miles |-> site.distance_miles,
                hazard_score |-> IF has_score THEN hazard_score.val ELSE None]>>

RECURSIVE cimc_markers(_)
cimc_markers(nearby_cimc) ==
    IF nearby_cimc = <<>> THEN <<>>
    ELSE cimc_marker(Head(nearby_cimc)) \o cimc_markers(Tail(nearby_cimc))

\* Layer 2 of create_map_figure: the hazard sites, an outline below the
\* colored points
cimc_layers(nearby_cimc) ==
    Bind(cimc_markers(nearby_cimc), LAMBDA markers :
        IF Len(nearby_cimc) > 0 /\ markers # <<>>
        THEN <<[type |-> "Scattermap", name |-> "CIMC Outline", size |-> 12,
                sites |-> markers],
               [type |-> "Scattermap", name |-> "CIMC Sites", size |-> 10,
                sites |-> markers,
                cmin |-> hazard_score_min, cmax |-> hazard_score_max]>>
        ELSE <<>>)

TractNotAvailable == PyStr(<<"n", "o", "t", " ", "a", "v", "a", "i", "l", "a", "b", "l", "e">>)

\* Layer 3 of create_map_figure: the bullseye of the search location; the
\* center dot carries the hover text.
\* Variant: the hover text says nothing when there is no tract info.
search_marker_layers_without_note(lat, lon, formatted_address, census_info) ==
    LET ring(size) == [type |-> "Scattermap", name |-> "", size |-> size,
                       lat |-> lat, lon |-> lon]
    IN  <<ring(45), ring(30), ring(18), ring(10),
          [type |-> "Scattermap", name |-> "Search Address", size |-> 6,
           lat |-> lat, lon |-> lon,
           hovertext |-> [location |-> formatted_address,
                          census |-> IF census_info # None
                                     THEN census_info ELSE PyStr(<<>>)]]>>

search_marker_layers(lat, lon, formatted_address, census_info) ==
    LET ring(size) == [type |-> "Scattermap", name |-> "", size |-> size,
                       lat |-> lat, lon |-> lon]
    IN  <<ring(45), ring(30), ring(18), ring(10),
          [type |-> "Scattermap", name |-> "Search Address", size |-> 6,
           lat |-> lat, lon |-> lon,
           hovertext |-> [location |-> formatted_address,
                          census |-> IF census_info # None
                                     THEN census_info ELSE TractNotAvailable]]>>

map_style_of(use_light_basemap) ==
    IF use_light_basemap = "none" THEN "white-bg"
    ELSE IF use_light_basemap = "light" THEN "carto-positron"
    ELSE "open-street-map"

\* The record of one get_coordinates call made by a query
\* Variant: the search marker is added before the hazard sites.
map_figure_marker_below_sites(lat, lon, formatted_address, radius_miles, zoom_to_use, use_light_basemap, nearby_tracts, nearby_cimc, census_info) ==
    [layers |-> tract_layers(nearby_tracts)
                \o search_marker_layers(lat, lon, formatted_address, census_info)
                \o cimc_layers(nearby_cimc),
     layout |-> [t |-> "map",
                 style |-> map_style_of(use_light_basemap),
                 center |-> [lat |-> lat, lon |-> lon],
                 zoom |-> zoom_to_use,
                 title |-> [count |-> Len(nearby_cimc),
                            radius_miles |-> radius_miles,
                            address |-> formatted_address]]]

\* The figure create_map_figure builds for a located address: the three
\* layers in drawing order and the layout, from what the two filters and the
\* tract lookup returned.
map_figure(lat, lon, formatted_address, radius_miles, zoom_to_use, use_light_basemap, nearby_tracts, nearby_cimc, census_info) ==
    [layers |-> tract_layers(nearby_tracts)
                \o cimc_layers(nearby_cimc)
                \o search_marker_layers(lat, lon, formatted_address, census_info),
     layout |-> [t |-> "map",
                 style |-> map_style_of(use_light_basemap),
                 center |-> [lat |-> lat, lon |-> lon],
                 zoom |-> zoom_to_use,
                 title |-> [count |-> Len(nearby_cimc),
                            radius_miles |-> radius_miles,
                            address |-> formatted_address]]]

GeoCall(address, before, geo) ==
    [address |-> address, provider |-> geo.provider, exc |-> geo.exc, ret |-> geo.ret,
     cache_before |-> before, cache_after |-> geo.cache]

\* create_map_figure(address, radius_miles, zoom_level, use_light_basemap) on
\* the cache `cache`, where the provider, if it is called, answers `outcome`.
\* ret is the tuple returned: three values when the address was not found,
\* four otherwise.
create_map_figure(cache, address, radius_miles, zoom_level, use_light_basemap, outcome) ==
    LET auto_zoom == calculate_zoom_for_radius(radius_miles)
        zoom_to_use == IF zoom_level # None THEN zoom_level.v ELSE auto_zoom
    IN  Bind(get_coordinates(cache, address, outcome), LAMBDA geo :
        LET lat == geo.ret[1]
            lon == geo.ret[2]
            formatted_address == geo.ret[3]
            geo_calls == <<GeoCall(address, cache, geo)>>
        IN  IF geo.exc # "none"
            THEN [exc |-> geo.exc, cache |-> geo.cache, geo_calls |-> geo_calls]
            ELSE IF lat = None \/ lon = None
            THEN [exc |-> "none", cache |-> geo.cache, geo_calls |-> geo_calls,
                  ret |-> <<AddressNotFoundFigure(address),
                            [text |-> "Address not found: ", address |-> address],
                            0>>]
            ELSE
            Bind(filter_census_tracts_within_radius(lat.v, lon.v, radius_miles),
                 LAMBDA nearby_tracts :
            Bind(filter_cimc_within_radius(lat.v, lon.v, radius_miles),
                 LAMBDA nearby_cimc :
            Bind(get_census_tract_info(lat.v, lon.v),
                 LAMBDA census_info :
            LET cimc_count == Len(nearby_cimc.rows)
                fig == map_figure(lat, lon, formatted_address, radius_miles, zoom_to_use,
                                  use_light_basemap, nearby_tracts.ret, nearby_cimc.rows,
                                  census_info.ret)
            IN  IF nearby_cimc.exc # "none"
                THEN [exc |-> nearby_cimc.exc, cache |-> geo.cache, geo_calls |-> geo_calls]
                ELSE [exc |-> "none", cache |-> geo.cache, geo_calls |-> geo_calls,
                      ret |-> <<fig, formatted_address, cimc_count, census_info.ret>>]))))

-----------------------------------------------------------------------------
(* The update_map callback *)

Hidden == [display |-> "none"]

Shown == [display |-> "block"]

EmptyText == [kind |-> "empty", text |-> ""]

\* The six outputs of the callback
Outputs(figure, status_message, data_info, data_info_style, gei_info_box, gei_box_style) ==
    [figure |-> figure, status_message |-> status_message,
     data_info |-> data_info, data_info_style |-> data_info_style,
     gei_info_box |-> gei_info_box, gei_box_style |-> gei_box_style]

\* The outputs of the except branch: an empty figure and the text of the exception
ErrorOutputs(exc) ==
    Outputs(EmptyFigure, [kind |-> "error", text |-> exc], EmptyText, Hidden, EmptyText, Hidden)

\* radius or 10
radius_or_10(radius) ==
    IF radius = None \/ radius.v = 0 THEN Miles(10) ELSE radius.v

Min(a, b) == IF a <= b THEN a ELSE b

Max(a, b) == IF a >= b THEN a ELSE b

\* Variant: the radius is passed on without the clamp.
validate_radius_unclamped(radius) == radius_or_10(radius)

\* max(0, min(25, radius or 10))
validate_radius(radius) == Max(0, Min(Miles(25), radius_or_10(radius)))

\* The data-info output of a query whose create_map_figure returned census_info
\* and whose second get_coordinates call returned geo2: the feature tables of the
\* containing tract, or a note.
data_info_of(census_info, geo2) ==
    IF top_features_df # None /\ census_info # None
    THEN LET point == Point(geo2.ret[2].v, geo2.ret[1].v)
             rows == census_tracts_gdf.rows
             containing_tracts == {i \in 1..Len(rows) : contains(rows[i].geometry, point)}
         IN  IF containing_tracts # {}
             THEN [kind |-> "feature_tables",
                   tract |-> CHOOSE i \in containing_tracts :
                                 \A k \in containing_tracts : i <= k,
                   style |-> Shown]
             ELSE [kind |-> "note", text |-> "Census tract not found for this address",
                   style |-> Shown]
    ELSE IF top_features_df # None
    THEN [kind |-> "note", text |-> "Census tract data not available for feature values",
          style |-> Shown]
    ELSE [kind |-> "note", text |-> "Top features data not available", style |-> Hidden]

\* update_map(n_clicks, n_submit, map_id, radius, map_style, address) on the
\* cache `cache`; the body reads none of n_clicks, n_submit and map_id.
\* outcome1 and outcome2 are the provider's answers to the first and the second
\* get_coordinates call, if they reach the provider. The result holds the outputs,
\* the cache after the call, the get_coordinates calls made and the arguments
\* passed to create_map_figure (None when it is not called).
update_map(cache, radius, map_style, address, outcome1, outcome2) ==
    IF ~data_loaded
    THEN [outputs |-> Outputs(EmptyFigure,
                              [kind |-> "error",
                               text |-> "CIMC_Brownfield_Final.csv not found in current directory"],
                              EmptyText, Hidden, EmptyText, Hidden),
          cache |-> cache, geo_calls |-> <<>>, passed |-> None]
    ELSE IF falsy_str(address) \/ falsy_str(strip(address))
    THEN [outputs |-> Outputs(create_default_us_map,
                              [kind |-> "info",
                               text |-> "Enter an address to search for CIMC sites"],
                              EmptyText, Hidden, EmptyText, Hidden),
          cache |-> cache, geo_calls |-> <<>>, passed |-> None]
    ELSE
    LET validated == validate_radius(radius)
        passed == [t |-> "args", address |-> strip(address), radius_miles |-> validated,
                   use_light_basemap |-> map_style]
    IN  Bind(create_map_figure(cache, strip(address), validated, None, map_style, outcome1),
             LAMBDA made :
        IF made.exc # "none"
        THEN [outputs |-> ErrorOutputs(made.exc), cache |-> made.cache,
              geo_calls |-> made.geo_calls, passed |-> passed]
        ELSE IF Len(made.ret) # 4
        THEN [outputs |-> ErrorOutputs("not enough values to unpack (expected 4, got 3)"),
              cache |-> made.cache, geo_calls |-> made.geo_calls, passed |-> passed]
        ELSE
        LET fig == made.ret[1]
            census_info == made.ret[4]
            second == top_features_df # None /\ census_info # None
        IN  IF ~second
            THEN [outputs |-> Outputs(fig, EmptyText,
                                      data_info_of(census_info, None),
                                      data_info_of(census_info, None).style,
                                      IF census_info # None
                                      THEN [kind |-> "gei_scores", scores |-> census_info]
                                      ELSE EmptyText,
                                      IF census_info # None THEN Shown ELSE Hidden),
                  cache |-> made.cache, geo_calls |-> made.geo_calls, passed |-> passed]
            ELSE
            Bind(get_coordinates(made.cache, strip(address), outcome2), LAMBDA geo2 :
            LET geo_calls == made.geo_calls \o <<GeoCall(strip(address), made.cache, geo2)>>
            IN  IF geo2.exc # "none"
                THEN [outputs |-> ErrorOutputs(geo2.exc), cache |-> geo2.cache,
                      geo_calls |-> geo_calls, passed |-> passed]
                ELSE IF geo2.ret[1] = None \/ geo2.ret[2] = None
                THEN [outputs |-> ErrorOutputs("Point coordinates must be numbers"),
                      cache |-> geo2.cache, geo_calls |-> geo_calls, passed |-> passed]
                ELSE [outputs |-> Outputs(fig, EmptyText,
                                          data_info_of(census_info, geo2),
                                          data_info_of(census_info, geo2).style,
                                          [kind |-> "gei_scores", scores |-> census_info],
                                          Shown),
                      cache |-> geo2.cache, geo_calls |-> geo_calls, passed |-> passed]))

-----------------------------------------------------------------------------
(* The dashboard: startup, then update_map calls *)

NoCall == [fn |-> "none"]

NoQuery == [kind |-> "none"]

\* A hazard file: row 1 at 0.1 degree south of row 2, row 3 without latitude,
\* row 4 without hazard score and 0.3 degree north of row 2.
HazardFile ==
    DataFrame(CimcColumns,
              <<SiteRow(Float(0), Float(1), Float(5)),
                SiteRow(Float(1), Float(1), Float(1)),
                SiteRow(NaN, Float(1), Float(3)),
                SiteRow(Float(4), Float(0), NaN)>>)

TractColumns == {"GEOID", "NAME", "geometry", "GEI_overall_score",
                 "GEI_health_score", "GEI_socio_score", "GEI_env_score"}

Tract(geoid, geometry, overall) ==
    [GEOID |-> PyStr(<<geoid>>), NAME |-> PyStr(<<"T", geoid>>), geometry |-> geometry,
     GEI_overall_score |-> overall, GEI_health_score |-> Float(20),
     GEI_socio_score |-> Float(30), GEI_env_score |-> Float(40)]

\* A tract file: three tracts of one cell each, the second without a score;
\* the cell <<1, 1>> belongs to no tract.
TractFile ==
    GeoDataFrame(TractColumns,
                 <<Tract("1", {<<0, 0>>}, Float(10)),
                   Tract("2", {<<1, 0>>}, Float(MISSING)),
                   Tract("3", {<<0, 1>>}, Float(50))>>)

TopFeaturesFile == DataFrame({"Domain", "Rank", "Feature", "Label"}, <<>>)

\* The files found at startup: <<hazard file, tract file, top-features file>>
Startups ==
    {<<NoFile, NoFile, NoFile>>,
     <<HazardFile, NoFile, NoFile>>,
     <<HazardFile, TractFile, NoFile>>,
     <<HazardFile, NoFile, TopFeaturesFile>>,
     <<HazardFile, TractFile, TopFeaturesFile>>}

\* The places the provider knows: one inside the first tract, at the second
\* hazard site, and one in the cell of no tract.
Places ==
    {Location(1, 1, PyStr(<<"W">>)), Location(3, 3, PyStr(<<"O">>))}

ProviderOutcomes == {ProviderRaises, ProviderNone} \cup Places

\* The largest radius the slider is made to send, in miles
MaxRadiusInput == 26

\* The <<radius, map style>> pairs of the requests drawn
RequestSettings ==
    {<<None, "light">>,
     <<Float(Miles(-1)), "none">>,
     <<Float(Miles(0)), "detailed">>,
     <<Float(Miles(10)), "light">>,
     <<Float(Miles(25)), "none">>,
     <<Float(Miles(MaxRadiusInput)), "detailed">>}

AddressInputs ==
    {None, PyStr(<<>>), PyStr(<<" ">>), PyStr(<<"a">>), PyStr(<<" ", "a", " ">>),
     PyStr(<<"A">>)}

Init ==
    /\ \E files \in Startups :
          LET cimc == load_cimc_data(files[1])
              tracts == load_census_tracts(files[2])
              top == load_top_features(files[3])
          IN  /\ cimc_data = cimc.cimc_data
              /\ hazard_score_min = cimc.hazard_score_min
              /\ hazard_score_max = cimc.hazard_score_max
              /\ data_loaded = cimc.ret
              /\ census_tracts_gdf = tracts.census_tracts_gdf
              /\ gei_min = tracts.gei_min
              /\ gei_max = tracts.gei_max
              /\ top_features_df = top.top_features_df
    /\ geocode_cache = <<>>
    /\ query = NoQuery
    /\ call = NoCall

\* The provider's possible answers to the get_coordinates calls of one
\* update_map: no choice is drawn for a call that is never made or that the
\* cache answers.
FirstOutcomes(address) ==
    IF /\ data_loaded
       /\ ~(falsy_str(address) \/ falsy_str(strip(address)))
       /\ strip(address) \notin DOMAIN geocode_cache
    THEN ProviderOutcomes ELSE {ProviderNone}

SecondOutcomes(address, outcome1) ==
    IF /\ top_features_df # None
       /\ census_tracts_gdf # None
       /\ FirstOutcomes(address) = ProviderOutcomes
       /\ outcome1 \notin Places
    THEN ProviderOutcomes ELSE {ProviderNone}

\* One run of the callback
UpdateMap ==
    /\ \E setting \in RequestSettings, address \in AddressInputs :
          \E outcome1 \in FirstOutcomes(address) :
          \E outcome2 \in SecondOutcomes(address, outcome1) :
          \E done \in {update_map(geocode_cache, setting[1], setting[2], address,
                                    outcome1, outcome2)} :
                 /\ geocode_cache' = done.cache
                 /\ query' = [kind |-> "update_map",
                              radius |-> setting[1], map_style |-> setting[2],
                              address |-> address,
                              passed |-> done.passed,
                              geo_calls |-> done.geo_calls,
                              outputs |-> done.outputs]
    /\ UNCHANGED <<datasets, call>>

Next == UpdateMap

Spec == Init /\ [][Next]_vars

-----------------------------------------------------------------------------
(* A query and its repetition, the provider answering the same both times *)

\* The first run of the callback; call keeps the provider's answer for the
\* address.
FirstQuery ==
    /\ query = NoQuery
    /\ \E setting \in RequestSettings, address \in AddressInputs :
          \E answer \in FirstOutcomes(address) :
          \E done \in {update_map(geocode_cache, setting[1], setting[2], address,
                                    answer, answer)} :
                 /\ geocode_cache' = done.cache
                 /\ query' = [kind |-> "update_map",
                              radius |-> setting[1], map_style |-> setting[2],
                              address |-> address,
                              passed |-> done.passed,
                              geo_calls |-> done.geo_calls,
                              outputs |-> done.outputs]
                 /\ call' = [fn |-> "provider", answer |-> answer]
    /\ UNCHANGED datasets

\* The same request again; call keeps the first run.
RepeatQuery ==
    /\ call.fn = "provider"
    /\ \E done \in {update_map(geocode_cache, query.radius, query.map_style, query.address,
                              call.answer, call.answer)} :
          /\ geocode_cache' = done.cache
          /\ query' = [query EXCEPT !.passed = done.passed,
                                    !.geo_calls = done.geo_calls,
                                    !.outputs = done.outputs]
          /\ call' = [fn |-> "repeat", first |-> query]
    /\ UNCHANGED datasets

NextRepeat == FirstQuery \/ RepeatQuery

SpecRepeat == Init /\ [][NextRepeat]_vars

-----------------------------------------------------------------------------
(* Two get_coordinates calls interleaved, statement by statement *)

\* A call of get_coordinates in progress: pc is the statement it is at,
\* location the local of line 229, ret what it returned.
Thread(address) ==
    [address |-> address, pc |-> "check", provider |-> "not_called",
     location |-> None, ret |-> None]

\* Line 224: if address in geocode_cache
check_step(cache, thread) ==
    [cache |-> cache,
     thread |-> [thread EXCEPT !.pc = IF thread.address \in DOMAIN cache
                                      THEN "hit" ELSE "geocode"]]

\* Line 226: return geocode_cache[address]
hit_step(cache, thread) ==
    [cache |-> cache,
     thread |-> [thread EXCEPT !.pc = "done", !.ret = cache[thread.address]]]

\* Variant: a provider failure empties the cache.
geocode_step_clearing_on_failure(cache, thread, outcome) ==
    IF outcome.kind = "location"
    THEN [cache |-> cache,
          thread |-> [thread EXCEPT !.pc = "store", !.provider = "location",
                                    !.location = outcome]]
    ELSE [cache |-> <<>>,
          thread |-> [thread EXCEPT !.pc = "done", !.provider = outcome.kind,
                                    !.ret = NotFound]]

\* Lines 229-230 and 234-237: the provider call, which answers with a
\* location, answers None or raises
geocode_step(cache, thread, outcome) ==
    IF outcome.kind = "location"
    THEN [cache |-> cache,
          thread |-> [thread EXCEPT !.pc = "store", !.provider = "location",
                                    !.location = outcome]]
    ELSE [cache |-> cache,
          thread |-> [thread EXCEPT !.pc = "done", !.provider = outcome.kind,
                                    !.ret = NotFound]]

\* Variant: a write to a key that is already there fails, and the call
\* returns not-found.
store_step_insert_only(cache, thread) ==
    LET result == <<Float(thread.location.latitude), Float(thread.location.longitude),
                    thread.location.address>>
    IN  IF thread.address \in DOMAIN cache
        THEN [cache |-> cache, thread |-> [thread EXCEPT !.pc = "done", !.ret = NotFound]]
        ELSE [cache |-> [a \in DOMAIN cache \cup {thread.address} |->
                            IF a = thread.address THEN result ELSE cache[a]],
              thread |-> [thread EXCEPT !.pc = "done", !.ret = result]]

\* Lines 231-233: result = (...); geocode_cache[address] = result; return result
store_step(cache, thread) ==
    LET result == <<Float(thread.location.latitude), Float(thread.location.longitude),
                    thread.location.address>>
    IN  [cache |-> [a \in DOMAIN cache \cup {thread.address} |->
                       IF a = thread.address THEN result ELSE cache[a]],
         thread |-> [thread EXCEPT !.pc = "done", !.ret = result]]

\* The addresses of the two calls
RaceAddresses == {PyStr(<<"a">>), PyStr(<<"b">>)}

InitRace ==
    /\ cimc_data = None
    /\ data_loaded = FALSE
    /\ hazard_score_min = None
    /\ hazard_score_max = None
    /\ census_tracts_gdf = None
    /\ gei_min = None
    /\ gei_max = None
    /\ top_features_df = None
    /\ geocode_cache = <<>>
    /\ query = NoQuery
    /\ \E a1 \in RaceAddresses, a2 \in RaceAddresses :
          call = [fn |-> "get_coordinates", threads |-> <<Thread(a1), Thread(a2)>>]

\* Thread t takes the step `done`.
Took(t, done) ==
    /\ geocode_cache' = done.cache
    /\ call' = [call EXCEPT !.threads[t] = done.thread]
    /\ UNCHANGED <<datasets, query>>

CheckCache ==
    \E t \in 1..2 :
        /\ call.threads[t].pc = "check"
        /\ Took(t, check_step(geocode_cache, call.threads[t]))

ReturnCached ==
    \E t \in 1..2 :
        /\ call.threads[t].pc = "hit"
        /\ Took(t, hit_step(geocode_cache, call.threads[t]))

Geocode ==
    \E t \in 1..2 :
        /\ call.threads[t].pc = "geocode"
        /\ \E outcome \in ProviderOutcomes :
              Took(t, geocode_step(geocode_cache, call.threads[t], outcome))

Store ==
    \E t \in 1..2 :
        /\ call.threads[t].pc = "store"
        /\ Took(t, store_step(geocode_cache, call.threads[t]))

NextRace == CheckCache \/ ReturnCached \/ Geocode \/ Store

SpecRace == InitRace /\ [][NextRace]_vars

-----------------------------------------------------------------------------
(* Direct calls of calculate_zoom_for_radius *)

\* The largest whole radius drawn, in miles
MaxZoomRadius == 101

\* The radii drawn: a negative one, the whole miles, and the thousandths on
\* both sides of the steps that fall between whole miles.
ZoomRadii ==
    {Miles(-1)} \cup {Miles(n) : n \in 0..MaxZoomRadius}
    \cup {1666, 1667, 3333, 3334, 6666, 6667, 13333, 13334, 26666, 26667}

InitZoom ==
    /\ cimc_data = None
    /\ data_loaded = FALSE
    /\ hazard_score_min = None
    /\ hazard_score_max = None
    /\ census_tracts_gdf = None
    /\ gei_min = None
    /\ gei_max = None
    /\ top_features_df = None
    /\ geocode_cache = <<>>
    /\ query = NoQuery
    /\ call = NoCall

\* A call, and a call with a radius at least as large.
CallZoom ==
    /\ call = NoCall
    /\ \E r1 \in ZoomRadii, r2 \in ZoomRadii :
          /\ r1 <= r2
          /\ call' = [fn |-> "calculate_zoom_for_radius", radius_miles |-> r1,
                      ret |-> calculate_zoom_for_radius(r1),
                      wider |-> [radius_miles |-> r2,
                                 ret |-> calculate_zoom_for_radius(r2)]]
    /\ UNCHANGED <<datasets, geocode_cache, query>>

NextZoom == CallZoom

SpecZoom == InitZoom /\ [][NextZoom]_vars

-----------------------------------------------------------------------------
(* Direct calls of filter_cimc_within_radius on drawn datasets *)

\* The rows a drawn hazard dataset is made of: sites on the grid, one whose
\* latitude is the text of a number, and sites whose latitude or longitude is
\* NaN, None or text that is no number.
SiteRows ==
    {SiteRow(Float(0), Float(0), Float(3)),
     SiteRow(Float(0), Float(1), Float(3)),
     SiteRow(Float(1), Float(1), Float(3)),
     SiteRow(Float(4), Float(0), Float(3))}
    \cup {SiteRow(PyStr(<<"3", "8", ".", "9">>), Float(1), Float(3)),
          SiteRow(NaN, Float(0), Float(3)),
          SiteRow(Float(1), NaN, Float(3)),
          SiteRow(None, Float(1), Float(3)),
          SiteRow(PyStr(<<"a", "b", "c">>), Float(0), Float(3)),
          SiteRow(Float(0), PyStr(<<"a", "b", "c">>), Float(3))}

SeqsUpTo(S, n) == UNION {[1..k -> S] : k \in 0..n}

\* The files drawn: no file, a file of up to MaxSites rows, and a file of one
\* row that lacks the LONGITUDE column.
CimcFiles ==
    {NoFile}
    \cup {DataFrame(CimcColumns, rows) : rows \in SeqsUpTo(SiteRows, MaxSites)}
    \cup {DataFrame(CimcColumns \ {"LONGITUDE"}, rows) : rows \in SeqsUpTo(SiteRows, 1)}

FilterCenters == {<<0, 0>>, <<1, 1>>}

\* 6.905 miles is the distance between two grid points 0.1 degree of latitude apart.
FilterRadii == {0, 6905, Miles(10), Miles(25)}

InitFilter ==
    /\ \E file \in CimcFiles :
          LET loaded == load_cimc_data(file)
          IN  /\ cimc_data = loaded.cimc_data
              /\ hazard_score_min = loaded.hazard_score_min
              /\ hazard_score_max = loaded.hazard_score_max
              /\ data_loaded = loaded.ret
    /\ census_tracts_gdf = None
    /\ top_features_df = None
    /\ gei_min = None
    /\ gei_max = None
    /\ geocode_cache = <<>>
    /\ query = NoQuery
    /\ call = NoCall

\* One call of the function on the dataset drawn.
CallFilter ==
    /\ call = NoCall
    /\ \E c \in FilterCenters, r \in FilterRadii :
          call' = [fn |-> "filter_cimc_within_radius",
                   center_lat |-> c[1], center_lon |-> c[2], radius_miles |-> r,
                   ret |-> filter_cimc_within_radius(c[1], c[2], r),
                   wider |-> NoCall]
    /\ UNCHANGED <<datasets, geocode_cache, query>>

\* A second call with the same center and a larger radius.
CallFilterWider ==
    /\ call.fn = "filter_cimc_within_radius"
    /\ \E r \in FilterRadii :
          /\ call.radius_miles < r
          /\ call' = [call EXCEPT !.wider =
                         [fn |-> "filter_cimc_within_radius", radius_miles |-> r,
                          ret |-> filter_cimc_within_radius(call.center_lat, call.center_lon, r)]]
    /\ UNCHANGED <<datasets, geocode_cache, query>>

NextFilter == CallFilter \/ CallFilterWider

SpecFilter == InitFilter /\ [][NextFilter]_vars

-----------------------------------------------------------------------------
(* Properties of the hazard filter *)

\* A coordinate cell holds a number when it is a float other than NaN or the
\* text of a number.
IsNumeral(cell) == cell.t = "str" /\ \E p \in NumericText : p[1] = cell.s

ValidCoordinate(cell) == cell.t = "float" \/ IsNumeral(cell)

CoordinateOf(cell) ==
    IF cell.t = "float" THEN cell.v ELSE (CHOOSE p \in NumericText : p[1] = cell.s)[2]

HasCoordinateColumns ==
    /\ cimc_data # None
    /\ {"LATITUDE", "LONGITUDE"} \subseteq cimc_data.columns

ValidSites ==
    IF HasCoordinateColumns
    THEN {i \in 1..Len(cimc_data.rows) :
            /\ ValidCoordinate(cimc_data.rows[i].LATITUDE)
            /\ ValidCoordinate(cimc_data.rows[i].LONGITUDE)}
    ELSE {}

SiteDistance(i, center_lat, center_lon) ==
    haversine_distance(center_lat, center_lon,
                       CoordinateOf(cimc_data.rows[i].LATITUDE),
                       CoordinateOf(cimc_data.rows[i].LONGITUDE))

SitesWithin(center_lat, center_lon, radius_miles) ==
    {i \in ValidSites : SiteDistance(i, center_lat, center_lon) <= radius_miles}

Labels(rows) == {rows[k].idx : k \in 1..Len(rows)}

IsFilterCall == call.fn = "filter_cimc_within_radius"

\* C4: filter_cimc_within_radius returns exactly the sites that have valid
\* latitude and longitude and lie at a distance <= radius_miles from the center
\* (a site at exactly the radius included), each once and with its distance
\* attached; sites with missing or invalid coordinates are skipped and no
\* exception leaves the call.
C4_FilterReturnsExactlySitesWithinRadius ==
    IsFilterCall =>
        /\ call.ret.exc = "none"
        /\ Labels(call.ret.rows) = SitesWithin(call.center_lat, call.center_lon, call.radius_miles)
        /\ Len(call.ret.rows) = Cardinality(Labels(call.ret.rows))
        /\ \A k \in 1..Len(call.ret.rows) :
              call.ret.rows[k].distance_miles =
                  SiteDistance(call.ret.rows[k].idx, call.center_lat, call.center_lon)

\* A call on a dataset with a site without valid coordinates, a site farther
\* than the radius and a site at exactly the radius, which is returned.
C4_Witness ==
    /\ IsFilterCall
    /\ HasCoordinateColumns
    /\ call.radius_miles > 0
    /\ \E i \in 1..Len(cimc_data.rows) : i \notin ValidSites
    /\ \E i \in ValidSites :
          SiteDistance(i, call.center_lat, call.center_lon) > call.radius_miles
    /\ \E k \in 1..Len(call.ret.rows) :
          call.ret.rows[k].distance_miles = call.radius_miles

\* C5: the result of filter_cimc_within_radius is sorted ascending by the
\* distance attached: adjacent records never decrease.
C5_FilterResultSortedByDistance ==
    IsFilterCall =>
        \A k \in 1..(Len(call.ret.rows) - 1) :
            call.ret.rows[k].distance_miles <= call.ret.rows[k + 1].distance_miles

\* A result of three sites in which the dataset's order had to be changed.
C5_Witness ==
    /\ IsFilterCall
    /\ Len(call.ret.rows) = 3
    /\ call.ret.rows[1].idx > call.ret.rows[2].idx
    /\ call.ret.rows[1].distance_miles < call.ret.rows[2].distance_miles
    /\ call.ret.rows[2].distance_miles < call.ret.rows[3].distance_miles

\* C6: for a fixed center and dataset and radii r1 < r2, the sites returned for
\* r1 are among the sites returned for r2.
C6_FilterMonotoneInRadius ==
    (IsFilterCall /\ call.wider # NoCall) =>
        Labels(call.ret.rows) \subseteq Labels(call.wider.ret.rows)

\* Two calls where the smaller radius returns a site and the larger one more.
C6_Witness ==
    /\ IsFilterCall
    /\ call.wider # NoCall
    /\ call.radius_miles < call.wider.radius_miles
    /\ Labels(call.ret.rows) # {}
    /\ Labels(call.ret.rows) # Labels(call.wider.ret.rows)

-----------------------------------------------------------------------------
(* Direct calls of get_census_tract_info on drawn tract datasets *)

\* The most tracts a drawn tract file has
MaxTracts == 3

\* The tracts a drawn tract file is made of: two neighbours of one cell, a
\* tract of both their cells (it overlaps them), two tracts further north, and
\* a tract of three cells around a corner; the second has the sentinel for a
\* score and the fifth has NaN.
TractRows ==
    {Tract("1", {<<0, 0>>}, Float(10)),
     Tract("2", {<<1, 0>>}, Float(MISSING)),
     Tract("3", {<<0, 0>>, <<1, 0>>}, Float(50)),
     Tract("4", {<<1, 1>>}, Float(70)),
     Tract("5", {<<0, 1>>}, NaN),
     Tract("6", {<<0, 0>>, <<1, 0>>, <<0, 1>>}, Float(30))}

TractFiles ==
    {NoFile} \cup {GeoDataFrame(TractColumns, rows) : rows \in SeqsUpTo(TractRows, MaxTracts)}

InitTract ==
    /\ \E file \in TractFiles :
          LET tracts == load_census_tracts(file)
          IN  /\ census_tracts_gdf = tracts.census_tracts_gdf
              /\ gei_min = tracts.gei_min
              /\ gei_max = tracts.gei_max
    /\ cimc_data = None
    /\ data_loaded = FALSE
    /\ hazard_score_min = None
    /\ hazard_score_max = None
    /\ top_features_df = None
    /\ geocode_cache = <<>>
    /\ query = NoQuery
    /\ call = NoCall

\* One call of the function on the dataset drawn.
CallTract ==
    /\ call = NoCall
    /\ \E lat \in GridIndex, lon \in GridIndex :
          call' = [fn |-> "get_census_tract_info", lat |-> lat, lon |-> lon,
                   ret |-> get_census_tract_info(lat, lon)]
    /\ UNCHANGED <<datasets, geocode_cache, query>>

NextTract == CallTract

SpecTract == InitTract /\ [][NextTract]_vars

\* The radii of the direct calls of the tract filter: with and without the
\* buffer, a box of 5 miles stays within 0.1 degree of its center; a box of 6
\* miles reaches 0.1 degree only with the buffer.
TractFilterRadii == {0, Miles(5), Miles(6), Miles(10), Miles(25)}

\* One call of filter_census_tracts_within_radius on the dataset drawn.
CallTractFilter ==
    /\ call = NoCall
    /\ \E lat \in GridIndex, lon \in GridIndex, r \in TractFilterRadii :
          call' = [fn |-> "filter_census_tracts_within_radius",
                   center_lat |-> lat, center_lon |-> lon, radius_miles |-> r,
                   ret |-> filter_census_tracts_within_radius(lat, lon, r)]
    /\ UNCHANGED <<datasets, geocode_cache, query>>

NextTractFilter == CallTractFilter

SpecTractFilter == InitTract /\ [][NextTractFilter]_vars

-----------------------------------------------------------------------------
(* Properties of the geocoder and of update_map *)

IsQuery == query.kind = "update_map"

\* The get_coordinates calls made by the last update_map
GeoCalls == IF IsQuery THEN {query.geo_calls[i] : i \in 1..Len(query.geo_calls)} ELSE {}

ProviderFailed(c) == c.provider \in {"none", "raise"}

\* C1: whenever the geocoding provider returns no location or raises,
\* get_coordinates returns (None, None, None), lets no exception out, and
\* leaves geocode_cache as it was before the call.
C1_GeocoderFailureIsNotFoundAndCacheUnchanged ==
    \A c \in GeoCalls :
        ProviderFailed(c) =>
            /\ c.ret = NotFound
            /\ c.exc = "none"
            /\ c.cache_after = c.cache_before

\* A call for an address that is not cached, on which the provider raises,
\* with another address already in the cache.
C1_Witness ==
    /\ IsQuery
    /\ \E c \in GeoCalls :
          /\ ProviderFailed(c)
          /\ c.provider = "raise"
          /\ c.cache_before # <<>>
          /\ c.address \notin DOMAIN c.cache_before
          /\ geocode_cache = c.cache_before

\* C3: an address once resolved stays in geocode_cache with the triple stored
\* for it, whatever update_map runs later, and every later get_coordinates of
\* that address returns the stored triple without asking the provider.
C3_CacheEntryIsPermanentAndAnswersLaterCalls ==
    [][/\ \A a \in DOMAIN geocode_cache :
             /\ a \in DOMAIN geocode_cache'
             /\ geocode_cache'[a] = geocode_cache[a]
       /\ query'.kind = "update_map" =>
             \A i \in 1..Len(query'.geo_calls) :
                LET c == query'.geo_calls[i]
                IN  /\ \A a \in DOMAIN c.cache_before :
                          a \in DOMAIN c.cache_after /\ c.cache_after[a] = c.cache_before[a]
                    /\ \A a \in DOMAIN geocode_cache : a \in DOMAIN c.cache_before
                    /\ c.address \in DOMAIN c.cache_before =>
                          /\ c.provider = "not_called"
                          /\ c.ret = c.cache_before[c.address]
                          /\ c.exc = "none"]_vars

\* A call answered from the cache, for an address resolved by an earlier
\* update_map, with a second address resolved since.
C3_Witness ==
    /\ IsQuery
    /\ Cardinality(DOMAIN geocode_cache) = 2
    /\ Len(query.geo_calls) = 1
    /\ query.geo_calls[1].provider = "not_called"
    /\ query.geo_calls[1].ret = geocode_cache[query.geo_calls[1].address]

\* C8: the radius update_map passes to create_map_figure lies in [0, 25]
\* miles, whatever radius was requested, absent and out of range included.
C8_PassedRadiusWithinSupportedRange ==
    (IsQuery /\ query.passed # None) =>
        /\ 0 <= query.passed.radius_miles
        /\ query.passed.radius_miles <= Miles(25)

\* A request above the range, passed on as 25 miles.
C8_Witness ==
    /\ IsQuery
    /\ query.radius = Float(Miles(MaxRadiusInput))
    /\ query.passed # None
    /\ query.passed.radius_miles = Miles(25)

\* The first get_coordinates of the last update_map found no coordinates.
GeocodingFailed ==
    /\ IsQuery
    /\ Len(query.geo_calls) >= 1
    /\ query.geo_calls[1].ret = NotFound

\* The outputs show what create_map_figure returns for an address it could not
\* locate: its "Address Not Found" figure or its "Address not found" text.
AddressNotFoundShown ==
    \/ query.outputs.figure = AddressNotFoundFigure(query.passed.address)
    \/ query.outputs.status_message =
          [text |-> "Address not found: ", address |-> query.passed.address]

\* C2: when geocoding of the query's address fails, update_map hands the
\* presentation layer an explicit "address not found" result.
C2_GeocodeFailureReportsAddressNotFound ==
    GeocodingFailed => AddressNotFoundShown

\* The hazard sites drawn on the figure of the last update_map
SitesShown ==
    UNION {{layer.sites[k] : k \in 1..Len(layer.sites)} :
              layer \in {query.outputs.figure.layers[i] :
                            i \in {n \in 1..Len(query.outputs.figure.layers) :
                                      query.outputs.figure.layers[n].name = "CIMC Sites"}}}

\* C7: a query with radius 0 includes only hazard sites at distance 0 from the
\* resolved center; every site farther away is excluded.
C7_RadiusZeroIncludesOnlySitesAtDistanceZero ==
    (IsQuery /\ query.radius = Float(Miles(0))) =>
        \A site \in SitesShown : site.distance_miles = 0

-----------------------------------------------------------------------------
(* Properties of get_census_tract_info *)

IsTractCall == call.fn = "get_census_tract_info"

\* In units of 0.05 degree, the four points next to (lon, lat) on its diagonals
\* lie in the closed square of some cell of the geometry: the point is in the
\* interior of the polygon.
StrictlyInside(geometry, lat, lon) ==
    \A dx \in {-1, 1}, dy \in {-1, 1} :
        \E cell \in geometry :
            /\ 4 * cell[1] <= 2 * lon + dx /\ 2 * lon + dx <= 4 * cell[1] + 4
            /\ 4 * cell[2] <= 2 * lat + dy /\ 2 * lat + dy <= 4 * cell[2] + 4

\* The point is in no closed square of the geometry.
Outside(geometry, lat, lon) ==
    \A cell \in geometry :
        ~(/\ 2 * cell[1] <= lon /\ lon <= 2 * cell[1] + 2
          /\ 2 * cell[2] <= lat /\ lat <= 2 * cell[2] + 2)

TractsStrictlyAround(lat, lon) ==
    {i \in 1..Len(census_tracts_gdf.rows) :
        StrictlyInside(census_tracts_gdf.rows[i].geometry, lat, lon)}

\* C9: get_census_tract_info returns the GEOID of the tract when the point is
\* strictly inside exactly one tract of the loaded dataset, and None when the
\* point is outside every tract.
C9_TractAttributionOfPoint ==
    (IsTractCall /\ census_tracts_gdf # None) =>
        /\ call.ret.exc = "none"
        /\ \A i \in 1..Len(census_tracts_gdf.rows) :
              TractsStrictlyAround(call.lat, call.lon) = {i} =>
                  /\ call.ret.ret # None
                  /\ call.ret.ret.geoid = census_tracts_gdf.rows[i].GEOID
        /\ (\A i \in 1..Len(census_tracts_gdf.rows) :
               Outside(census_tracts_gdf.rows[i].geometry, call.lat, call.lon)) =>
              call.ret.ret = None

\* A point strictly inside the last of three tracts and on the boundary of
\* the first, whose GEOID is returned.
C9_Witness ==
    /\ IsTractCall
    /\ census_tracts_gdf # None
    /\ Len(census_tracts_gdf.rows) = 3
    /\ TractsStrictlyAround(call.lat, call.lon) = {3}
    /\ ~Outside(census_tracts_gdf.rows[1].geometry, call.lat, call.lon)
    /\ call.ret.ret # None
    /\ call.ret.ret.geoid = census_tracts_gdf.rows[3].GEOID

\* C10, as stated: when the tract dataset failed to load, tract attribution
\* returns an outcome distinct from the None of "no tract contains the point".
C10_UnloadedDatasetOutcomeDistinctFromNone ==
    (IsTractCall /\ census_tracts_gdf = None) => call.ret.ret # None

\* C10, as the code has it: when the tract dataset failed to load, tract
\* attribution returns None, the outcome of "no tract contains the point".
C10_UnloadedDatasetReturnsNone ==
    (IsTractCall /\ census_tracts_gdf = None) =>
        /\ call.ret.exc = "none"
        /\ call.ret.ret = None

\* A call made with no tract dataset loaded.
C10_Witness ==
    /\ IsTractCall
    /\ census_tracts_gdf = None
    /\ call.ret.ret = None

-----------------------------------------------------------------------------
(* Properties of the tract layer *)

\* The last update_map located its address and composed a map figure.
Composed ==
    /\ IsQuery
    /\ query.outputs.figure.layout.t = "map"

\* The result of the tract filter for the last update_map
NearbyTractsOfQuery ==
    filter_census_tracts_within_radius(query.geo_calls[1].ret[1].v,
                                       query.geo_calls[1].ret[2].v,
                                       query.passed.radius_miles).ret

EmptyTractResult == [t |-> "gdf", index |-> <<>>]

\* The figure composed for the last update_map had the tract filter returned
\* an empty result
FigureForEmptyTractResult ==
    map_figure(query.geo_calls[1].ret[1], query.geo_calls[1].ret[2],
               query.geo_calls[1].ret[3], query.passed.radius_miles,
               calculate_zoom_for_radius(query.passed.radius_miles),
               query.passed.use_light_basemap, EmptyTractResult,
               filter_cimc_within_radius(query.geo_calls[1].ret[1].v,
                                         query.geo_calls[1].ret[2].v,
                                         query.passed.radius_miles).rows,
               None)

\* C11: with the tract dataset absent, filter_census_tracts_within_radius
\* returns an outcome distinct from the empty result, and the figure composed
\* is not the one composed for an empty result: it shows an explanatory state.
C11_AbsentTractDatasetIsExplained ==
    (Composed /\ census_tracts_gdf = None) =>
        /\ NearbyTractsOfQuery # EmptyTractResult
        /\ query.outputs.figure # FigureForEmptyTractResult

\* The scores of the loaded tracts that are numbers and not the sentinel
ScoresNotMissing ==
    {census_tracts_gdf.rows[i].GEI_overall_score.v :
        i \in {k \in 1..Len(census_tracts_gdf.rows) :
                  /\ census_tracts_gdf.rows[k].GEI_overall_score.t = "float"
                  /\ census_tracts_gdf.rows[k].GEI_overall_score.v # MISSING}}

\* C12: gei_min and gei_max, computed at load time, are the least and the
\* greatest GEI_overall_score over the tracts whose score is not the sentinel
\* -999; the sentinel is never a bound.
C12_GeiBoundsExcludeSentinel ==
    (census_tracts_gdf # None /\ "GEI_overall_score" \in census_tracts_gdf.columns) =>
        /\ gei_min # Float(MISSING)
        /\ gei_max # Float(MISSING)
        /\ ScoresNotMissing # {} =>
              /\ gei_min.t = "float" /\ gei_max.t = "float"
              /\ gei_min.v \in ScoresNotMissing
              /\ gei_max.v \in ScoresNotMissing
              /\ \A v \in ScoresNotMissing : gei_min.v <= v /\ v <= gei_max.v

\* A dataset with the scores 0.1, 0.5 and -999, loaded with the bounds 0.1 and
\* 0.5.
C12_Witness ==
    /\ census_tracts_gdf # None
    /\ Len(census_tracts_gdf.rows) = 3
    /\ {census_tracts_gdf.rows[i].GEI_overall_score : i \in 1..3}
          = {Float(10), Float(50), Float(MISSING)}
    /\ gei_min = Float(10)
    /\ gei_max = Float(50)

\* The tract layers of the figure of the last update_map
TractLayersShown ==
    {query.outputs.figure.layers[n] :
        n \in {k \in 1..Len(query.outputs.figure.layers) :
                  query.outputs.figure.layers[k].type = "Choroplethmap"}}

LocationsOf(layer) == {layer.locations[k] : k \in 1..Len(layer.locations)}

\* The tracts the tract filter matched whose score is the sentinel
MatchedSentinelTracts ==
    {NearbyTractsOfQuery.index[k] : k \in
        {n \in 1..Len(NearbyTractsOfQuery.index) :
            census_tracts_gdf.rows[NearbyTractsOfQuery.index[n]].GEI_overall_score
                = Float(MISSING)}}

\* C13: a tract matched by the tract filter whose GEI_overall_score is the
\* sentinel -999 is kept out of the color-scaled layer but is still on the
\* rendered figure, in a layer drawn in neutral styling.
C13_SentinelTractShownInNeutralStyling ==
    (Composed /\ census_tracts_gdf # None) =>
        \A i \in MatchedSentinelTracts :
            /\ \A layer \in TractLayersShown :
                  layer.colorscale = "RdYlGn" => i \notin LocationsOf(layer)
            /\ \E layer \in TractLayersShown :
                  layer.colorscale # "RdYlGn" /\ i \in LocationsOf(layer)

-----------------------------------------------------------------------------
(* Frame of a query *)

\* The query q found no coordinates for its address.
GeocodingFailedIn(q) ==
    /\ q.kind = "update_map"
    /\ Len(q.geo_calls) >= 1
    /\ q.geo_calls[1].ret = NotFound

\* The query q located its address and found no tract containing the point.
NoContainingTractIn(q) ==
    /\ q.kind = "update_map"
    /\ q.outputs.figure.layout.t = "map"
    /\ q.outputs.gei_box_style = Hidden

\* The query q ended in the except clause of update_map.
InternalExceptionIn(q) ==
    /\ q.kind = "update_map"
    /\ q.passed # None
    /\ q.outputs.status_message \in {ErrorOutputs(e).status_message :
          e \in {"not enough values to unpack (expected 4, got 3)",
                 "Point coordinates must be numbers"}}

\* C14, as stated: no query changes the datasets or the score bounds, and a
\* failed query (geocoding failure, no containing tract, internal exception)
\* leaves geocode_cache unchanged.
C14_FailedQueryLeavesCacheUnchanged ==
    [][/\ UNCHANGED datasets
       /\ (GeocodingFailedIn(query') \/ NoContainingTractIn(query')
             \/ InternalExceptionIn(query'))
             => geocode_cache' = geocode_cache]_vars

\* C14, as the code has it: no query changes the datasets or the score
\* bounds; a query whose geocoding fails leaves geocode_cache unchanged, and
\* any other query, one with no containing tract included, adds at most the
\* entry of its own address and changes no entry.
C14_QueryFrame ==
    [][/\ UNCHANGED datasets
       /\ GeocodingFailedIn(query') => geocode_cache' = geocode_cache
       /\ \A a \in DOMAIN geocode_cache :
             a \in DOMAIN geocode_cache' /\ geocode_cache'[a] = geocode_cache[a]
       /\ \A a \in DOMAIN geocode_cache' \ DOMAIN geocode_cache :
             /\ a = query'.passed.address
             /\ geocode_cache'[a] = query'.geo_calls[1].ret
             /\ query'.geo_calls[1].provider = "location"]_vars

\* A query with no containing tract that stored the entry of its address next
\* to an older entry.
C14_Witness ==
    /\ NoContainingTractIn(query)
    /\ query.geo_calls[1].provider = "location"
    /\ Cardinality(DOMAIN geocode_cache) = 2
    /\ query.geo_calls[1].cache_after = geocode_cache
    /\ query.geo_calls[1].cache_before # geocode_cache

-----------------------------------------------------------------------------
(* Repetition of a query *)

IsRepeat == call.fn = "repeat"

\* C15: the same query run again, datasets unchanged and the provider
\* answering as before, gives the same result (coordinate, hazard sites in
\* order, containing tract, zoom: all of the outputs), served by the provider
\* or by the cache.
C15_RepeatedQuerySameResult ==
    IsRepeat =>
        /\ query.outputs = call.first.outputs
        /\ query.passed = call.first.passed

\* A located query with hazard sites on its figure, repeated and served by
\* the cache.
C15_Witness ==
    /\ IsRepeat
    /\ Composed
    /\ call.first.geo_calls[1].provider = "location"
    /\ query.geo_calls[1].provider = "not_called"
    /\ SitesShown # {}

-----------------------------------------------------------------------------
(* Interleaved get_coordinates calls *)

BothDone ==
    /\ call.fn = "get_coordinates"
    /\ \A t \in 1..2 : call.threads[t].pc = "done"

\* What the call returned is the triple of the location the provider gave it.
Resolved(thread) ==
    /\ thread.location # None
    /\ thread.ret = <<Float(thread.location.latitude), Float(thread.location.longitude),
                      thread.location.address>>

\* C16: two calls for the same uncached address that both miss, both reach
\* the provider and both write end, in every interleaving, with one cache
\* entry for the address, holding a resolved triple, and each call returns a
\* resolved triple.
C16_SameAddressRaceKeepsOneResolvedEntry ==
    (/\ BothDone
     /\ call.threads[1].address = call.threads[2].address
     /\ \A t \in 1..2 : call.threads[t].provider = "location") =>
        /\ DOMAIN geocode_cache = {call.threads[1].address}
        /\ geocode_cache[call.threads[1].address]
              \in {call.threads[1].ret, call.threads[2].ret}
        /\ \A t \in 1..2 : Resolved(call.threads[t])

\* Both calls missed and were answered with different locations; the entry is
\* the first call's triple, written last.
C16_Witness ==
    /\ BothDone
    /\ call.threads[1].address = call.threads[2].address
    /\ \A t \in 1..2 : call.threads[t].provider = "location"
    /\ call.threads[1].ret # call.threads[2].ret
    /\ geocode_cache[call.threads[1].address] = call.threads[1].ret

\* C17: a call whose provider call fails, interleaved with a call for another
\* address whose provider call succeeds, leaves the other call alone: it
\* returns its resolved triple and its entry is in the cache at the end.
C17_FailureDoesNotReachOtherQuery ==
    \A failing \in 1..2, other \in 1..2 :
        (/\ BothDone
         /\ call.threads[failing].address # call.threads[other].address
         /\ call.threads[failing].provider \in {"none", "raise"}
         /\ call.threads[other].provider = "location") =>
            /\ Resolved(call.threads[other])
            /\ call.threads[other].address \in DOMAIN geocode_cache
            /\ geocode_cache[call.threads[other].address] = call.threads[other].ret
            /\ call.threads[failing].ret = NotFound
            /\ call.threads[failing].address \notin DOMAIN geocode_cache

\* The provider raised for the second call and resolved the first call's
\* other address.
C17_Witness ==
    /\ BothDone
    /\ call.threads[1].address # call.threads[2].address
    /\ call.threads[2].provider = "raise"
    /\ call.threads[1].provider = "location"
    /\ geocode_cache[call.threads[1].address] = call.threads[1].ret

-----------------------------------------------------------------------------
(* Kinds of geocoder failure *)

\* What get_coordinates returns, as in call c, when the provider answers that
\* there is no such address
NoSuchAddressOutcome(c) ==
    get_coordinates(c.cache_before, c.address, ProviderNone)

\* C18: when the provider call raised, what get_coordinates reports differs
\* from what it reports when the provider answered with no location, so a
\* caller can tell the two apart.
C18_ProviderErrorDistinctFromNoSuchAddress ==
    \A c \in GeoCalls :
        c.provider = "raise" =>
            \/ c.ret # NoSuchAddressOutcome(c).ret
            \/ c.exc # NoSuchAddressOutcome(c).exc

-----------------------------------------------------------------------------
(* Properties of calculate_zoom_for_radius *)

IsZoomCall == call.fn = "calculate_zoom_for_radius"

\* The zoom of the step that the display diameter d (in thousandths of a
\* mile) falls in
ZoomOfDiameter(d) ==
    CHOOSE z \in 6..13 :
        /\ z = 13 <=> d <= 5000
        /\ z = 12 <=> (5000 < d /\ d <= 10000)
        /\ z = 11 <=> (10000 < d /\ d <= 20000)
        /\ z = 10 <=> (20000 < d /\ d <= 40000)
        /\ z = 9 <=> (40000 < d /\ d <= 80000)
        /\ z = 8 <=> (80000 < d /\ d <= 150000)
        /\ z = 7 <=> (150000 < d /\ d <= 300000)
        /\ z = 6 <=> d > 300000

\* C19: calculate_zoom_for_radius(r) is, for d = 3 * r, 13 if d <= 5, 12 if
\* 5 < d <= 10, 11 if 10 < d <= 20, 10 if 20 < d <= 40, 9 if 40 < d <= 80,
\* 8 if 80 < d <= 150, 7 if 150 < d <= 300 and 6 if d > 300.
C19_ZoomStepsOfDisplayDiameter ==
    IsZoomCall =>
        /\ call.ret = ZoomOfDiameter(3 * call.radius_miles)
        /\ call.wider.ret = ZoomOfDiameter(3 * call.wider.radius_miles)

\* A radius of 50 miles, whose diameter is on the step at 150, with zoom 8,
\* and one of 100 miles, on the step at 300, with zoom 7.
C19_Witness ==
    /\ IsZoomCall
    /\ call.radius_miles = Miles(50)
    /\ call.ret = 8
    /\ call.wider.radius_miles = Miles(100)
    /\ call.wider.ret = 7

\* C20: calculate_zoom_for_radius is non-increasing: for radii r1 <= r2 the
\* zoom of r1 is at least the zoom of r2.
C20_ZoomNonIncreasingInRadius ==
    (IsZoomCall /\ call.radius_miles <= call.wider.radius_miles) =>
        call.ret >= call.wider.ret

\* Two radii on different steps, the larger with the smaller zoom.
C20_Witness ==
    /\ IsZoomCall
    /\ call.radius_miles = Miles(6)
    /\ call.wider.radius_miles = Miles(7)
    /\ call.ret = 11
    /\ call.wider.ret = 10

-----------------------------------------------------------------------------
(* A located point that no tract contains *)

\* The last update_map located its address at a point that no tract of the
\* loaded dataset contains.
LocatedOutsideEveryTract ==
    /\ IsQuery
    /\ census_tracts_gdf # None
    /\ Len(query.geo_calls) >= 1
    /\ query.geo_calls[1].ret # NotFound
    /\ \A i \in 1..Len(census_tracts_gdf.rows) :
          ~StrictlyInside(census_tracts_gdf.rows[i].geometry,
                          query.geo_calls[1].ret[1].v, query.geo_calls[1].ret[2].v)

\* The layers of the search marker on the figure of the last update_map
SearchMarkersShown ==
    {query.outputs.figure.layers[n] :
        n \in {k \in 1..Len(query.outputs.figure.layers) :
                  query.outputs.figure.layers[k].name = "Search Address"}}

\* The hazard sites within the radius of the last update_map
SitesWithinOfQuery ==
    {i \in 1..Len(cimc_data.rows) :
        /\ cimc_data.rows[i].LATITUDE.t = "float"
        /\ cimc_data.rows[i].LONGITUDE.t = "float"
        /\ haversine_distance(query.geo_calls[1].ret[1].v, query.geo_calls[1].ret[2].v,
                              cimc_data.rows[i].LATITUDE.v, cimc_data.rows[i].LONGITUDE.v)
              <= query.passed.radius_miles}

\* C21: a query whose address resolves to a point that no tract contains
\* ends without an exception: its figure is the map with the hazard sites in
\* range and the search marker, and the marker reports the tract as "tract
\* information not available".
C21_NoContainingTractStillRendered ==
    LocatedOutsideEveryTract =>
        /\ query.outputs.status_message = EmptyText
        /\ Composed
        /\ {site.idx : site \in SitesShown} = SitesWithinOfQuery
        /\ SearchMarkersShown # {}
        /\ \A marker \in SearchMarkersShown :
              /\ marker.lat = query.geo_calls[1].ret[1]
              /\ marker.lon = query.geo_calls[1].ret[2]
              /\ marker.hovertext.census = TractNotAvailable

\* A point in the cell of no tract, with a hazard site in range.
C21_Witness ==
    /\ LocatedOutsideEveryTract
    /\ Len(census_tracts_gdf.rows) > 0
    /\ SitesShown # {}
    /\ query.outputs.gei_box_style = Hidden

-----------------------------------------------------------------------------
(* Order of the layers *)

\* The kind of a layer of a composed figure, in the order of drawing: 1 a
\* tract polygon layer, 2 a hazard-site layer, 3 a layer of the search marker
\* (its rings and its point).
LayerRank(layer) ==
    IF layer.type = "Choroplethmap" THEN 1
    ELSE IF layer.name \in {"CIMC Outline", "CIMC Sites"} THEN 2
    ELSE 3

\* C22: on the figure of every successful query the tract layers come first,
\* the hazard-site layers second and the layers of the search marker last: no
\* layer is added after a layer of a later kind.
C22_LayersInDrawingOrder ==
    Composed =>
        /\ \A i \in 1..Len(query.outputs.figure.layers) :
           \A j \in 1..Len(query.outputs.figure.layers) :
              i < j => LayerRank(query.outputs.figure.layers[i])
                          <= LayerRank(query.outputs.figure.layers[j])
        /\ query.outputs.figure.layers[Len(query.outputs.figure.layers)].name
              = "Search Address"

\* A figure with a tract layer, hazard-site layers and the search marker.
C22_Witness ==
    /\ Composed
    /\ \A rank \in 1..3 :
          \E i \in 1..Len(query.outputs.figure.layers) :
             LayerRank(query.outputs.figure.layers[i]) = rank

-----------------------------------------------------------------------------
(* Provider calls of a query *)

\* The get_coordinates calls of the last update_map that reached the provider
ProviderCalls ==
    {i \in 1..Len(query.geo_calls) : query.geo_calls[i].provider # "not_called"}

\* C23: a query asks the provider at most once: when its provider call fails
\* the query ends as a failed query without another get_coordinates, and when
\* update_map makes its second get_coordinates, for the feature breakdown, the
\* cache answers it.
C23_AtMostOneProviderCallPerQuery ==
    IsQuery =>
        /\ Cardinality(ProviderCalls) <= 1
        /\ GeocodingFailed =>
              /\ Len(query.geo_calls) = 1
              /\ query.outputs.figure.layout.t # "map"
        /\ Len(query.geo_calls) = 2 =>
              /\ query.geo_calls[2].provider = "not_called"
              /\ query.geo_calls[2].ret = query.geo_calls[1].ret

\* A successful query that asked the provider for its address and made the
\* second get_coordinates.
C23_Witness ==
    /\ Composed
    /\ Len(query.geo_calls) = 2
    /\ query.geo_calls[1].provider = "location"
    /\ query.geo_calls[2].provider = "not_called"

-----------------------------------------------------------------------------
(* Cache keys *)

\* The string is not empty and neither starts nor ends with whitespace.
Trimmed(str) ==
    /\ str.s # <<>>
    /\ str.s[1] \notin Whitespace
    /\ str.s[Len(str.s)] \notin Whitespace

\* str is raw without the whitespace at its two ends, letter case kept.
TrimOf(str, raw) ==
    /\ Trimmed(str)
    /\ \E i \in 1..Len(raw.s) :
          /\ SubSeq(raw.s, i, i + Len(str.s) - 1) = str.s
          /\ \A k \in 1..Len(raw.s) :
                (k < i \/ k > i + Len(str.s) - 1) => raw.s[k] \in Whitespace

\* C24: get_coordinates is called with the address as typed, trimmed and not
\* case-folded, never with an empty or whitespace-only one; every key of
\* geocode_cache is a non-empty trimmed string; a call is a cache hit only
\* for the very same key, so an address that differs in letter case misses.
C24_CacheKeyIsTrimmedRawAddress ==
    /\ \A key \in DOMAIN geocode_cache : Trimmed(key)
    /\ \A c \in GeoCalls :
          /\ TrimOf(c.address, query.address)
          /\ c.provider = "not_called" <=> c.address \in DOMAIN c.cache_before
          /\ c.provider = "location" =>
                DOMAIN c.cache_after = DOMAIN c.cache_before \cup {c.address}

\* "A" asked with "a" in the cache: a miss, answered by the provider and
\* stored under its own key.
C24_Witness ==
    /\ IsQuery
    /\ query.address = PyStr(<<"A">>)
    /\ Len(query.geo_calls) >= 1
    /\ PyStr(<<"a">>) \in DOMAIN query.geo_calls[1].cache_before
    /\ query.geo_calls[1].provider = "location"
    /\ DOMAIN geocode_cache = {PyStr(<<"a">>), PyStr(<<"A">>)}

-----------------------------------------------------------------------------
(* Properties of filter_census_tracts_within_radius *)

IsTractFilterCall == call.fn = "filter_census_tracts_within_radius"

\* The search box of the call, in units of 0.1 degree times 69000: its half
\* side is d = radius_miles * 1.2 / 69.0 degrees, that is 12 * radius_miles
\* in these units for a radius in thousandths of a mile.
BoxMinLon == 69000 * call.center_lon - 12 * call.radius_miles

BoxMaxLon == 69000 * call.center_lon + 12 * call.radius_miles

BoxMinLat == 69000 * call.center_lat - 12 * call.radius_miles

BoxMaxLat == 69000 * call.center_lat + 12 * call.radius_miles

\* The rectangle of longitude indices [lo1, hi1] and latitude indices
\* [lo2, hi2] meets the search box.
RectangleMeetsBox(lo1, hi1, lo2, hi2) ==
    /\ Max(69000 * lo1, BoxMinLon) <= Min(69000 * hi1, BoxMaxLon)
    /\ Max(69000 * lo2, BoxMinLat) <= Min(69000 * hi2, BoxMaxLat)

\* Some part of the geometry lies in the search box.
GeometryMeetsBox(geometry) ==
    \E cell \in geometry :
        RectangleMeetsBox(2 * cell[1], 2 * cell[1] + 2, 2 * cell[2], 2 * cell[2] + 2)

\* The bounding box of the geometry meets the search box.
BoundsMeetBox(geometry) ==
    \E w \in geometry, e \in geometry, s \in geometry, n \in geometry :
        /\ \A cell \in geometry :
              /\ w[1] <= cell[1] /\ cell[1] <= e[1]
              /\ s[2] <= cell[2] /\ cell[2] <= n[2]
        /\ RectangleMeetsBox(2 * w[1], 2 * e[1] + 2, 2 * s[2], 2 * n[2] + 2)

TractsReturned == {call.ret.ret.index[k] : k \in 1..Len(call.ret.ret.index)}

\* C25, as stated: filter_census_tracts_within_radius returns all and only
\* the tracts whose geometry's bounding box intersects the box of half side
\* d = radius_miles * 1.2 / 69.0 around the center.
C25_TractsWhoseBoundsMeetBox ==
    (IsTractFilterCall /\ census_tracts_gdf # None) =>
        TractsReturned = {i \in 1..Len(census_tracts_gdf.rows) :
                             BoundsMeetBox(census_tracts_gdf.rows[i].geometry)}

\* C25, as the code has it: filter_census_tracts_within_radius returns all and
\* only the tracts whose geometry intersects the box of half side
\* d = radius_miles * 1.2 / 69.0 around the center.
C25_TractsWhoseGeometryMeetsBox ==
    (IsTractFilterCall /\ census_tracts_gdf # None) =>
        /\ call.ret.exc = "none"
        /\ TractsReturned = {i \in 1..Len(census_tracts_gdf.rows) :
                                GeometryMeetsBox(census_tracts_gdf.rows[i].geometry)}

\* A box of 5 miles inside the corner that a tract of three cells goes
\* around: the bounds of the tract meet the box, the tract does not and is not
\* returned, while the tract the box lies in is returned.
C25_Witness ==
    /\ IsTractFilterCall
    /\ census_tracts_gdf # None
    /\ call.radius_miles = Miles(5)
    /\ \E i \in 1..Len(census_tracts_gdf.rows) :
          /\ BoundsMeetBox(census_tracts_gdf.rows[i].geometry)
          /\ ~GeometryMeetsBox(census_tracts_gdf.rows[i].geometry)
          /\ i \notin TractsReturned
    /\ TractsReturned # {}

-----------------------------------------------------------------------------
(* Values of the cache *)

\* The triple is one a successful provider answer gives: latitude and
\* longitude are numbers.
ResolvedTriple(value) ==
    /\ Len(value) = 3
    /\ value[1].t = "float"
    /\ value[2].t = "float"
    /\ value[3].t = "str"

\* C26: every value of geocode_cache is the triple of a successful provider
\* answer; a not-found or error outcome is never stored, so a query for an
\* address whose earlier lookup failed asks the provider again.
C26_OnlyResolvedTriplesCached ==
    [][/\ \A a \in DOMAIN geocode_cache' : ResolvedTriple(geocode_cache'[a])
       /\ (GeocodingFailedIn(query) /\ query'.kind = "update_map"
             /\ query'.passed # None /\ query'.passed.address = query.passed.address)
             => /\ query.passed.address \notin DOMAIN geocode_cache
                /\ Len(query'.geo_calls) >= 1
                /\ query'.geo_calls[1].provider # "not_called"]_vars

\* A query whose lookup the provider answered with no location, after another
\* address was resolved: the cache holds resolved triples only and the failed
\* address is not a key.
C26_Witness ==
    /\ GeocodingFailed
    /\ query.geo_calls[1].provider = "none"
    /\ geocode_cache # <<>>
    /\ query.passed.address \notin DOMAIN geocode_cache
    /\ \A a \in DOMAIN geocode_cache : ResolvedTriple(geocode_cache[a])

====
